---- MODULE Spec2Model ----
(***************************************************************************)
(* LilaWeltWeather: the MQTT weather service of src/main.py.               *)
(*                                                                         *)
(* State: the three caches (geocode_cache, rev_geocode_cache and the       *)
(* TTLCache behind get_forecast_), the wall clock, and a record of what    *)
(* the last handled MQTT message did.  paho's loop_forever (main.py:214)   *)
(* runs on_message on the network thread, one message at a time, so one    *)
(* message is one atomic step.                                             *)
(*                                                                         *)
(* Units: time is in seconds; a coordinate is an integer number of 1/10000 *)
(* degree (4 is 0.0004 degrees), so the third decimal of a coordinate is   *)
(* its tens digit.  Coordinates ending in 5 (decimal ties, which a binary  *)
(* float does not hold exactly) are left out of the inputs.                *)
(***************************************************************************)
EXTENDS Integers, Sequences, FiniteSets, TLC

VARIABLES
    geocode_cache,      \* main.py:28   sequence of [key, value], insertion order
    rev_geocode_cache,  \* main.py:31   LRUCache: [key, value], least recently used first
    forecast_cache,     \* main.py:34   TTLCache: [key, value, expires], least recently used first
    now,                \* the TTLCache timer
    nreq,               \* number of messages handled so far
    last,               \* what the last handled message did
    revUse,             \* history: per reverse key, the message that last used it (0: never)
    fcStored,           \* history: per forecast key, the last store: <<[at, ok, hits]>> (hits: 2 for more)
    inbox,              \* messages delivered to the client and not yet handled
    busy                \* <<msg>> while on_message runs on msg, else <<>>

vars == <<geocode_cache, rev_geocode_cache, forecast_cache, now, nreq, last,
          revUse, fcStored, inbox, busy>>

----------------------------------------------------------------------------
\* Bounds of the exploration.

MaxRequests == 2
MaxLruRequests == 4
MaxTtlRequests == 4
MaxTicks == 3
MaxQueueRequests == 4
\* LRUCache(1000) and TTLCache(100, ...), scaled down so that eviction happens.
RevMaxsize == 2
ForecastMaxsize == 2

\* timedelta(minutes=10).seconds
Ttl == 600
\* The clock is looked at every half TTL.
TickStep == Ttl \div 2

----------------------------------------------------------------------------
\* Values.

None == "None"            \* Python None, JSON null
Absent == "<absent>"      \* a key a dict does not have

\* A JSON value that is no number (a string such as "north").
NonNumber == 99999
\* A JSON value that is no string (a number): it has no .lower().
NonString == <<"#">>

\* Place names are sequences of characters.
PlaceNames == { <<"A">>, <<"a">>, <<" ", "a">>, <<"B">>, <<"c">> }

Lats == { -4, 4, 12, 14, 24 }
Lons == { 4 }

Opt(S) == { <<>> } \cup { <<v>> : v \in S }

\* An inbound MQTT payload: how json.loads fares on it, and, when it is a JSON
\* object, its place, lat and lon members (<<>>: no such member).
Payloads ==
    [parse : {"jsonerr", "utf8err"}, place : {<<>>}, lat : {<<>>}, lon : {<<>>}]
    \cup [parse : {"ok"}, place : Opt(PlaceNames \cup {NonString}),
          lat : {<<>>}, lon : {<<>>}]
    \cup [parse : {"ok"}, place : {<<>>},
          lat : Opt(Lats \cup {NonNumber}), lon : Opt(Lons)]
    \cup [parse : {"ok"}, place : {<<>>}, lat : {<<>>}, lon : {<<NonNumber>>}]
    \cup [parse : {"ok"}, place : {<< <<"A">> >>}, lat : {<<12>>}, lon : Opt(Lons)]

\* What the collaborators answer to the calls of one message.
GeoOutcomes == {"raise", "none", "ok"}
RevOutcomes == {"raise", "none", "full", "nosuburb", "nocity", "noaddress"}
WeatherOutcomes == {"raise", "ok"}
Outcomes == [geo : GeoOutcomes, rev : RevOutcomes, weather : WeatherOutcomes]

----------------------------------------------------------------------------
\* DotDict (src/dotdict.py): a dict whose keys read as attributes.  A location
\* is the provider's raw dict: id stands for the rest of the payload, lat and
\* lon are <<>> when the dict has no such key.  attr_display_name is the
\* instance attribute that `location.display_name = ...` sets: DotDict defines
\* __getattr__ only, so the assignment does not touch the dict's keys.

Location(id, lat, lon, display, address) ==
    [id |-> id, lat |-> lat, lon |-> lon, display_name |-> display,
     address |-> address, attr_display_name |-> <<>>]

Address(suburb, city, state) == [suburb |-> suburb, city |-> city, state |-> state]

\* DotDict.__getattr__ on a key of the dict: <<v>>, or <<>> for AttributeError.
DotGet(d, name) ==
    CASE name = "lat" -> d.lat
      [] name = "lon" -> d.lon
      [] name = "suburb" -> d.suburb
      [] name = "city" -> d.city
      [] name = "state" -> d.state
      [] OTHER -> <<>>

\* ", ".join(parts): TypeError (<<>>) when a part is None.
RECURSIVE JoinFrom(_, _)
JoinFrom(parts, i) ==
    IF i = Len(parts) THEN parts[i] ELSE parts[i] \o ", " \o JoinFrom(parts, i + 1)

Join(parts) ==
    IF \E i \in 1..Len(parts) : parts[i] = None THEN <<>> ELSE << JoinFrom(parts, 1) >>

----------------------------------------------------------------------------
\* The collaborators (external): geopy's Nominatim and timezonefinder.

\* geolocator.geocode(place).raw: the payload depends on the text asked for.
GeocodeRaw(place) ==
    Location(<<"geo">> \o place, <<IF Len(place) = 1 THEN 4 ELSE 12>>, <<4>>,
             "provider label", <<>>)

\* geolocator.reverse(f"{lat}, {lon}").raw, by the shape of its address breakdown.
ReverseRaw(lat, lon, shape) ==
    Location(<<"rev", shape>>, <<lat>>, <<lon>>, "provider label",
             CASE shape = "full" -> << Address(<<"Sub">>, <<"City">>, <<"State">>) >>
               [] shape = "nosuburb" -> << Address(<<>>, <<"City">>, <<"State">>) >>
               [] shape = "nocity" -> << Address(<<"Sub">>, <<>>, <<"State">>) >>
               [] OTHER -> <<>>)

\* timezone_finder.timezone_at: a pure lookup, None over open sea.
timezone_at(lat, lon) == IF lat < 0 THEN None ELSE "Etc/GMT"

----------------------------------------------------------------------------
\* Cache keys.

LowerChar(c) ==
    CASE c = "A" -> "a"
      [] c = "B" -> "b"
      [] c = "C" -> "c"
      [] OTHER -> c

\* str.lower()
Lower(s) == [i \in 1..Len(s) |-> LowerChar(s[i])]

\* geocode_place: cache_key = place.lower()
GeocodeKey(place) == Lower(place)

Abs(x) == IF x < 0 THEN -x ELSE x

Pad3(n) ==
    IF n < 10 THEN "00" \o ToString(n)
    ELSE IF n < 100 THEN "0" \o ToString(n) ELSE ToString(n)

\* f"{x:.3f}": the sign of x, then |x| rounded to 3 decimals.  A negative x
\* keeps its "-" also when it rounds to zero.
Format3f(x) ==
    LET m == (Abs(x) + 5) \div 10
    IN  (IF x < 0 THEN "-" ELSE "") \o ToString(m \div 1000) \o "." \o Pad3(m % 1000)

\* rev_geocode: cache_key = f"{lat:.3f},{lon:.3f}"
RevKey(lat, lon) == Format3f(lat) \o "," \o Format3f(lon)

\* cachetools.keys.hashkey(lat, lon)
ForecastKey(lat, lon) == <<lat, lon>>

----------------------------------------------------------------------------
\* Caches: sequences of entries.

Keys(c) == { c[i].key : i \in 1..Len(c) }
Contains(c, k) == k \in Keys(c)
IndexOf(c, k) == CHOOSE i \in 1..Len(c) : c[i].key = k
Without(c, k) == SelectSeq(c, LAMBDA e : e.key # k)

\* dict: geocode_cache[key] = value
DictSet(c, k, v) ==
    IF Contains(c, k)
    THEN [i \in 1..Len(c) |-> IF c[i].key = k THEN [key |-> k, value |-> v] ELSE c[i]]
    ELSE Append(c, [key |-> k, value |-> v])

DictGet(c, k) == c[IndexOf(c, k)].value

\* A read that leaves the order alone (a plain dict, first in first out).
LruTouchNoUpdate(c, k) == c
\* LRUCache.__getitem__: the key becomes the most recently used.
LruTouch(c, k) == Append(Without(c, k), c[IndexOf(c, k)])

\* A cache that never makes room.
LruEvictNever(c, maxsize) == c
\* LRUCache.popitem: drops the least recently used entry.
RECURSIVE LruEvict(_, _)
LruEvict(c, maxsize) == IF Len(c) >= maxsize THEN LruEvict(Tail(c), maxsize) ELSE c

\* LRUCache.__setitem__
LruSet(c, k, v, maxsize) ==
    IF Contains(c, k)
    THEN Append(Without(c, k), [key |-> k, value |-> v])
    ELSE Append(LruEvict(c, maxsize), [key |-> k, value |-> v])

\* TTLCache: an entry is live while timer() < expires.
TtlLive(e, t) == t < e.expires

\* A lookup that never expires an entry (an LRUCache in place of the TTLCache).
TtlHitIgnoresExpiry(c, k, t) == Contains(c, k)
\* TTLCache.__getitem__ finds the key, and finds it live.
TtlHit(c, k, t) == Contains(c, k) /\ TtlLive(c[IndexOf(c, k)], t)

\* TTLCache.expire: drops every expired entry.
TtlExpire(c, t) == SelectSeq(c, LAMBDA e : TtlLive(e, t))

\* TTLCache.__setitem__: expire, make room, store with expires = timer() + ttl.
TtlSet(c, k, v, t, maxsize) ==
    LET live == TtlExpire(c, t)
        entry == [key |-> k, value |-> v, expires |-> t + Ttl]
    IN  IF Contains(live, k)
        THEN Append(Without(live, k), entry)
        ELSE Append(LruEvict(live, maxsize), entry)

----------------------------------------------------------------------------
\* The functions of main.py.  Each returns what the Python function returns
\* (value), whether it raised instead, the caches as it leaves them, and the
\* calls it made to the collaborators.

Call(svc, result) == [svc |-> svc, result |-> result]

\* A get_forecast_ without its try/except: the exception leaves the function
\* and nothing is stored.
get_forecast_NoCatch(cache, t, lat, lon, out) ==
    LET key == ForecastKey(lat, lon)
    IN  IF TtlHit(cache, key, t)
        THEN [raised |-> FALSE, cache |-> LruTouch(cache, key),
              value |-> DictGet(cache, key), calls |-> <<>>]
        ELSE IF out = "raise"
        THEN [raised |-> TRUE, cache |-> cache, value |-> None,
              calls |-> << Call("weather", out) >>]
        ELSE [raised |-> FALSE,
              cache |-> TtlSet(cache, key, "forecast", t, ForecastMaxsize),
              value |-> "forecast", calls |-> << Call("weather", out) >>]
\* A forecast cache whose hits store the entry anew, with a new lifetime.
get_forecast_HitRenews(cache, t, lat, lon, out) ==
    LET key == ForecastKey(lat, lon)
    IN  IF TtlHit(cache, key, t)
        THEN [raised |-> FALSE,
              cache |-> TtlSet(cache, key, DictGet(cache, key), t, ForecastMaxsize),
              value |-> DictGet(cache, key), calls |-> <<>>]
        ELSE LET v == IF out = "raise" THEN None ELSE "forecast"
             IN  [raised |-> FALSE,
                  cache |-> TtlSet(cache, key, v, t, ForecastMaxsize),
                  value |-> v, calls |-> << Call("weather", out) >>]
\* get_forecast_ behind @cached(TTLCache(100, ttl=600)): a live entry is
\* returned; otherwise the body runs and whatever it returns, None included,
\* is stored.
get_forecast_(cache, t, lat, lon, out) ==
    LET key == ForecastKey(lat, lon)
    IN  IF TtlHit(cache, key, t)
        THEN [raised |-> FALSE, cache |-> LruTouch(cache, key),
              value |-> DictGet(cache, key), calls |-> <<>>]
        ELSE LET v == IF out = "raise" THEN None ELSE "forecast"
             IN  [raised |-> FALSE,
                  cache |-> TtlSet(cache, key, v, t, ForecastMaxsize),
                  value |-> v, calls |-> << Call("weather", out) >>]

Raised(cache, calls) ==
    [raised |-> TRUE, cache |-> cache, value |-> <<>>, calls |-> calls]

\* A geocode_place that writes the cache entry before it knows the lookup
\* succeeded.
geocode_placeCacheFailure(cache, place, out) ==
    IF place = NonString THEN Raised(cache, <<>>)
    ELSE LET cache_key == GeocodeKey(place)
         IN  IF Contains(cache, cache_key)
             THEN [raised |-> FALSE, cache |-> cache,
                   value |-> << DictGet(cache, cache_key) >>, calls |-> <<>>]
             ELSE LET stored == DictSet(cache, cache_key, GeocodeRaw(place))
                  IN  IF out = "ok"
                      THEN [raised |-> FALSE, cache |-> stored,
                            value |-> << DictGet(stored, cache_key) >>,
                            calls |-> << Call("geocode", out) >>]
                      ELSE Raised(stored, << Call("geocode", out) >>)
geocode_place(cache, place, out) ==
    IF place = NonString
    THEN Raised(cache, <<>>)                    \* place.lower(): AttributeError
    ELSE LET cache_key == GeocodeKey(place)
         IN  IF Contains(cache, cache_key)
             THEN [raised |-> FALSE, cache |-> cache,
                   value |-> << DictGet(cache, cache_key) >>, calls |-> <<>>]
             ELSE IF out = "ok"
             THEN LET stored == DictSet(cache, cache_key, GeocodeRaw(place))
                  IN  [raised |-> FALSE, cache |-> stored,
                       value |-> << DictGet(stored, cache_key) >>,
                       calls |-> << Call("geocode", out) >>]
             \* the provider raises, or returns None and location.raw raises
             ELSE Raised(cache, << Call("geocode", out) >>)

\* rev_geocode, lines 73-81: <<location>>, or <<>> when a line raises.
NormalizeAddress(location) ==
    IF location.address = <<>> THEN << location >>
    ELSE LET address == location.address[1]
             suburb == IF address.suburb # <<>> THEN DotGet(address, "suburb")[1] ELSE None
             city == DotGet(address, "city")
             state == DotGet(address, "state")
         IN  IF city = <<>> \/ state = <<>> THEN <<>>       \* AttributeError
             ELSE LET joined == Join(<<suburb, city[1], state[1]>>)
                  IN  IF joined = <<>> THEN <<>>            \* TypeError
                      ELSE << [location EXCEPT !.attr_display_name = joined] >>

\* A rev_geocode whose final read finds the key it has just stored evicted
\* again, as inserts made in between into the full cache would leave it.
rev_geocodeEvictedBeforeRead(cache, lat, lon, out) ==
    IF lat = NonNumber \/ lon = NonNumber
    THEN Raised(cache, <<>>)
    ELSE LET cache_key == RevKey(lat, lon)
         IN  IF Contains(cache, cache_key)
             THEN [raised |-> FALSE, cache |-> LruTouch(cache, cache_key),
                   value |-> << DictGet(cache, cache_key) >>, calls |-> <<>>]
             ELSE IF out \in {"raise", "none"}
             THEN Raised(cache, << Call("reverse", out) >>)
             ELSE LET location == NormalizeAddress(ReverseRaw(lat, lon, out))
                  IN  IF location = <<>>
                      THEN Raised(cache, << Call("reverse", out) >>)
                      ELSE IF Len(cache) >= RevMaxsize
                      THEN Raised(cache, << Call("reverse", out) >>)   \* KeyError
                      ELSE LET stored == LruSet(cache, cache_key, location[1], RevMaxsize)
                           IN  [raised |-> FALSE, cache |-> LruTouch(stored, cache_key),
                                value |-> << DictGet(stored, cache_key) >>,
                                calls |-> << Call("reverse", out) >>]

rev_geocode(cache, lat, lon, out) ==
    IF lat = NonNumber \/ lon = NonNumber
    THEN Raised(cache, <<>>)                    \* f"{lat:.3f}": ValueError
    ELSE LET cache_key == RevKey(lat, lon)
         IN  IF Contains(cache, cache_key)
             THEN [raised |-> FALSE, cache |-> LruTouch(cache, cache_key),
                   value |-> << DictGet(cache, cache_key) >>, calls |-> <<>>]
             ELSE IF out \in {"raise", "none"}
             THEN Raised(cache, << Call("reverse", out) >>)
             ELSE LET location == NormalizeAddress(ReverseRaw(lat, lon, out))
                  IN  IF location = <<>>
                      THEN Raised(cache, << Call("reverse", out) >>)
                      ELSE LET stored == LruSet(cache, cache_key, location[1], RevMaxsize)
                           IN  [raised |-> FALSE, cache |-> LruTouch(stored, cache_key),
                                value |-> << DictGet(stored, cache_key) >>,
                                calls |-> << Call("reverse", out) >>]

\* The response dicts.
ErrorEnvelope(error, msg) ==
    [topic |-> "error", error |-> error, msg |-> msg, location |-> <<>>,
     timezone |-> Absent, forecast |-> Absent]

SuccessEnvelope(topic, location, timezone, forecast) ==
    [topic |-> topic, error |-> Absent, msg |-> Absent, location |-> << location >>,
     timezone |-> timezone, forecast |-> forecast]

\* What a request handler hands back to on_message.
Result(raised, response, gc, rc, fc, calls, fkey) ==
    [raised |-> raised, response |-> response, geocode_cache |-> gc,
     rev_geocode_cache |-> rc, forecast_cache |-> fc, calls |-> calls, fkey |-> fkey]

\* Lines 108-115 and 128-135: timezone, forecast, envelope.
Assemble(topic, location, lat, lon, gc, rc, fc, t, calls, out) ==
    LET timezone == timezone_at(lat, lon)
        f == get_forecast_(fc, t, lat, lon, out.weather)
        made == calls \o << Call("timezone", "ok") >> \o f.calls
    IN  IF f.raised
        THEN Result(TRUE, <<>>, gc, rc, f.cache, made, << ForecastKey(lat, lon) >>)
        ELSE Result(FALSE, << SuccessEnvelope(topic, location, timezone, f.value) >>,
                    gc, rc, f.cache, made, << ForecastKey(lat, lon) >>)

place_request(gc, rc, fc, t, place, out) ==
    LET g == geocode_place(gc, place, out.geo)
    IN  IF g.raised
        THEN Result(FALSE, << ErrorEnvelope("GEOCODE_ERROR", "Failed to geocode") >>,
                    g.cache, rc, fc, g.calls, <<>>)
        ELSE LET location == g.value[1]
                 lat == DotGet(location, "lat")
                 lon == DotGet(location, "lon")
             IN  IF lat = <<>> \/ lon = <<>>
                 \* float(location.lat): AttributeError, outside the try
                 THEN Result(TRUE, <<>>, g.cache, rc, fc, g.calls, <<>>)
                 ELSE Assemble("place_request", location, lat[1], lon[1],
                               g.cache, rc, fc, t, g.calls, out)

point_request(gc, rc, fc, t, lat, lon, out) ==
    LET r == rev_geocode(rc, lat, lon, out.rev)
    IN  IF r.raised
        THEN Result(FALSE,
                    << ErrorEnvelope("GEOCODE_ERROR", "Failed to reverse-geocode") >>,
                    gc, r.cache, fc, r.calls, <<>>)
        ELSE Assemble("point_request", r.value[1], lat, lon,
                      gc, r.cache, fc, t, r.calls, out)

\* json.dumps(response): a DotDict is written as the dict it is; its instance
\* attributes are not part of it.
JsonDumps(response) ==
    [response EXCEPT !.location =
        [i \in 1..Len(response.location) |->
            [response.location[i] EXCEPT !.attr_display_name = <<>>]]]

\* A dispatch that takes either coordinate for a point request, the other
\* one defaulted.
DispatchLatOrLon(req) ==
    IF req.place # <<>> THEN [path |-> "place", place |-> req.place[1], lat |-> 0, lon |-> 0]
    ELSE IF req.lat # <<>> \/ req.lon # <<>>
    THEN [path |-> "point", place |-> <<>>,
          lat |-> IF req.lat # <<>> THEN req.lat[1] ELSE 4,
          lon |-> IF req.lon # <<>> THEN req.lon[1] ELSE 4]
    ELSE [path |-> "unknown", place |-> <<>>, lat |-> 0, lon |-> 0]
\* A dispatch that looks for coordinates first and for a place after.
DispatchPointFirst(req) ==
    IF req.lat # <<>> /\ req.lon # <<>>
    THEN [path |-> "point", place |-> <<>>, lat |-> req.lat[1], lon |-> req.lon[1]]
    ELSE IF req.place # <<>>
    THEN [path |-> "place", place |-> req.place[1], lat |-> 0, lon |-> 0]
    ELSE [path |-> "unknown", place |-> <<>>, lat |-> 0, lon |-> 0]
\* on_message, lines 163-174: which branch a decoded request takes, and the
\* arguments it passes.
Dispatch(req) ==
    IF req.place # <<>>                                   \* hasattr(req, "place")
    THEN [path |-> "place", place |-> req.place[1], lat |-> 0, lon |-> 0]
    ELSE IF req.lat # <<>> /\ req.lon # <<>>
    THEN [path |-> "point", place |-> <<>>, lat |-> req.lat[1], lon |-> req.lon[1]]
    ELSE [path |-> "unknown", place |-> <<>>, lat |-> 0, lon |-> 0]

\* on_message: what is published on <topic>/response, and whether the
\* callback raised.
Handle(msg, gc, rc, fc, t, out) ==
    IF msg.parse = "utf8err"
    \* json.loads(bytes): UnicodeDecodeError is no JSONDecodeError
    THEN Result(TRUE, <<>>, gc, rc, fc, <<>>, <<>>)
    ELSE IF msg.parse = "jsonerr"
    THEN Result(FALSE, << ErrorEnvelope(Absent, "Error parsing payload") >>,
                gc, rc, fc, <<>>, <<>>)
    ELSE LET d == Dispatch(msg)
             r == CASE d.path = "place" -> place_request(gc, rc, fc, t, d.place, out)
                    [] d.path = "point" -> point_request(gc, rc, fc, t, d.lat, d.lon, out)
                    [] OTHER -> Result(FALSE, << ErrorEnvelope(Absent, "Unknown request") >>,
                                       gc, rc, fc, <<>>, <<>>)
         IN  [r EXCEPT !.response =
                 [i \in 1..Len(r.response) |-> JsonDumps(r.response[i])]]

----------------------------------------------------------------------------
\* Start-up: main() seeds geocode_cache from the operator's [[locations]].

\* A seed with a `name`, coordinates included.
SeedNamed ==
    [name |-> << <<"B">> >>, names |-> <<>>,
     value |-> Location(<<"seed", "B">>, <<24>>, <<4>>, Absent, <<>>)]
\* A seed with `names` and no coordinates: nothing in the loader asks for them.
SeedAliases ==
    [name |-> <<>>, names |-> << << <<"C">>, <<"c", " ">> >> >>,
     value |-> Location(<<"seed", "C">>, <<>>, <<>>, Absent, <<>>)]
\* A seed with neither: skipped as malformed.
SeedMalformed ==
    [name |-> <<>>, names |-> <<>>,
     value |-> Location(<<"seed", "?">>, <<4>>, <<4>>, Absent, <<>>)]

SeedLists == { <<SeedNamed, SeedAliases, SeedMalformed>> }

RECURSIVE SetAll(_, _, _)
SetAll(cache, names, value) ==
    IF names = <<>> THEN cache
    ELSE SetAll(DictSet(cache, Lower(Head(names)), value), Tail(names), value)

RECURSIVE add_locations_to_cache(_, _)
add_locations_to_cache(cache, locations) ==
    IF locations = <<>> THEN cache
    ELSE LET location == Head(locations)
             next == IF location.name # <<>>
                     THEN DictSet(cache, Lower(location.name[1]), location.value)
                     ELSE IF location.names # <<>>
                     THEN SetAll(cache, location.names[1], location.value)
                     ELSE cache
         IN  add_locations_to_cache(next, Tail(locations))

RevKeys == { RevKey(a, b) : a \in Lats, b \in Lons }
FcKeys == { ForecastKey(a, b) : a \in Lats, b \in Lons }

NoMessage == [parse |-> "none", place |-> <<>>, lat |-> <<>>, lon |-> <<>>]

Init ==
    /\ \E seeds \in SeedLists : geocode_cache = add_locations_to_cache(<<>>, seeds)
    /\ rev_geocode_cache = <<>>
    /\ forecast_cache = <<>>
    /\ now = 0
    /\ nreq = 0
    /\ last = [msg |-> NoMessage, published |-> <<>>, calls |-> <<>>,
               raised |-> FALSE, path |-> "none", fkey |-> <<>>, prevStored |-> <<>>]
    /\ revUse = [k \in RevKeys |-> 0]
    /\ fcStored = [k \in FcKeys |-> <<>>]
    /\ inbox = <<>>
    /\ busy = <<>>

PathOf(msg) == IF msg.parse = "ok" THEN Dispatch(msg).path ELSE "none"

\* The state after on_message has handled msg with result r, and the record
\* of what it did.
Handled(msg, r) ==
    LET d == Dispatch(msg)
        answered == r.response # <<>> /\ r.response[1].topic = "point_request"
        fetched == { i \in 1..Len(r.calls) : r.calls[i].svc = "weather" }
    IN  /\ geocode_cache' = r.geocode_cache
        /\ rev_geocode_cache' = r.rev_geocode_cache
        /\ forecast_cache' = r.forecast_cache
        /\ last' = [msg |-> msg, published |-> r.response, calls |-> r.calls,
                    raised |-> r.raised, path |-> PathOf(msg), fkey |-> r.fkey,
                    prevStored |-> IF r.fkey = <<>> THEN <<>> ELSE fcStored[r.fkey[1]]]
        /\ revUse' = IF answered
                     THEN [revUse EXCEPT ![RevKey(d.lat, d.lon)] = nreq + 1]
                     ELSE revUse
        /\ fcStored' =
              IF fetched # {} /\ ~r.raised
              THEN [fcStored EXCEPT ![r.fkey[1]] =
                       << [at |-> now,
                           ok |-> \A i \in fetched : r.calls[i].result = "ok",
                           hits |-> 0] >>]
              ELSE IF r.fkey # <<>> /\ ~r.raised /\ fcStored[r.fkey[1]] # <<>>
              THEN [fcStored EXCEPT ![r.fkey[1]] =
                       << [@[1] EXCEPT !.hits = IF @ < 2 THEN @ + 1 ELSE @] >>]
              ELSE fcStored
        /\ nreq' = nreq + 1
        /\ UNCHANGED now

\* One MQTT message, handled to the end by on_message.
on_message(msg, out) ==
    Handled(msg, Handle(msg, geocode_cache, rev_geocode_cache, forecast_cache, now, out))

\* The outcomes that one message can consult: a collaborator that the message
\* never reaches is given one fixed outcome.
Relevant(msg, O) ==
    { out \in O :
        /\ PathOf(msg) # "place" => out.geo = "ok"
        /\ PathOf(msg) # "point" => out.rev = "full"
        /\ PathOf(msg) \notin {"place", "point"} => out.weather = "ok" }

\* Up to `max` messages drawn from P, the collaborators answering from O.
Receive(P, O, max) ==
    /\ nreq < max
    /\ \E msg \in P : \E out \in Relevant(msg, O) : on_message(msg, out)
    /\ UNCHANGED <<inbox, busy>>

\* Time passes between messages.
Tick ==
    /\ now + TickStep <= MaxTicks * TickStep
    /\ now' = now + TickStep
    /\ UNCHANGED <<geocode_cache, rev_geocode_cache, forecast_cache, nreq, last,
                   revUse, fcStored, inbox, busy>>

\* Every payload and every outcome, a few messages deep.
Next == Receive(Payloads, Outcomes, MaxRequests)

Spec == Init /\ [][Next]_vars

\* Coordinate lookups whose forecast fetch succeeds, deep enough to fill
\* rev_geocode_cache and evict from it.
LruPayloads ==
    [parse : {"ok"}, place : {<<>>}, lat : Opt(Lats), lon : Opt(Lons)]
    \cup [parse : {"ok"}, place : {<< <<"B">> >>}, lat : {<<>>}, lon : {<<>>}]
LruOutcomes == [geo : {"ok"}, rev : {"raise", "full", "noaddress"}, weather : {"ok"}]

NextLru == Receive(LruPayloads, LruOutcomes, MaxLruRequests)

SpecLru == Init /\ [][NextLru]_vars

\* Lookups as time passes, deep enough to fill the forecast cache, evict from
\* it and let its entries expire.
TtlPayloads ==
    [parse : {"ok"}, place : {<<>>}, lat : {<<4>>, <<12>>, <<24>>}, lon : {<<4>>}]
    \cup [parse : {"ok"}, place : {<< <<"B">> >>}, lat : {<<>>}, lon : {<<>>}]
TtlOutcomes == [geo : {"ok"}, rev : {"noaddress"}, weather : WeatherOutcomes]

NextTtl ==
    \/ Receive(TtlPayloads, TtlOutcomes, MaxTtlRequests)
    \/ Tick

SpecTtl == Init /\ [][NextTtl]_vars

\* The network loop: client.loop_forever() reads the messages the broker
\* delivered and calls on_message for each on its own thread, so a message is
\* taken up only when the callback for the one before has returned.  The
\* provider calls of on_message have no deadline of the service's own
\* (requests.get is called without a timeout): a handler that has begun may
\* stay in its call for any time, also for ever.
QueuePayloads ==
    [parse : {"ok"}, place : {<<>>}, lat : {<<4>>, <<12>>, <<24>>}, lon : {<<4>>}]
    \cup [parse : {"ok"}, place : {<< <<"A">> >>}, lat : {<<>>}, lon : {<<>>}]
QueueOutcomes == [geo : {"raise", "ok"}, rev : {"raise", "full", "noaddress"},
                  weather : {"ok"}]

\* The broker delivers a message while the client is idle or busy.
Arrive ==
    /\ nreq + Len(busy) + Len(inbox) < MaxQueueRequests
    /\ \E msg \in QueuePayloads : inbox' = Append(inbox, msg)
    /\ UNCHANGED <<geocode_cache, rev_geocode_cache, forecast_cache, now, nreq,
                   last, revUse, fcStored, busy>>

\* The loop calls on_message for the oldest delivered message.
Begin ==
    /\ busy = <<>>
    /\ inbox # <<>>
    /\ busy' = << Head(inbox) >>
    /\ inbox' = Tail(inbox)
    /\ UNCHANGED <<geocode_cache, rev_geocode_cache, forecast_cache, now, nreq,
                   last, revUse, fcStored>>

\* The provider calls of the running on_message come back and it returns.
Return ==
    /\ busy # <<>>
    /\ \E out \in Relevant(busy[1], QueueOutcomes) : on_message(busy[1], out)
    /\ busy' = <<>>
    /\ UNCHANGED inbox

NextQueue ==
    \/ Arrive
    \/ Begin
    \/ Return

SpecQueue == Init /\ [][NextQueue]_vars

----------------------------------------------------------------------------
\* Reading the record of a handled message.

\* This step handles a message.
Step == nreq' = nreq + 1

CallsTo(l, svc) == { i \in 1..Len(l.calls) : l.calls[i].svc = svc }
Called(l, svc) == CallsTo(l, svc) # {}
\* A call to svc that raised or, for the geocoders, found no match.
Failed(l, svc) == \E i \in CallsTo(l, svc) : l.calls[i].result \in {"raise", "none"}

\* The message was answered with one success envelope.
Answered(l) ==
    /\ ~l.raised
    /\ Len(l.published) = 1
    /\ l.published[1].topic \in {"place_request", "point_request"}

IsPlaceRequest(l) == l.path = "place" /\ l.msg.place[1] # NonString
IsPointRequest(l) ==
    l.path = "point" /\ l.msg.lat[1] # NonNumber /\ l.msg.lon[1] # NonNumber

\* str.strip() of a place name.
RECURSIVE StripLeft(_)
StripLeft(s) == IF s # <<>> /\ Head(s) = " " THEN StripLeft(Tail(s)) ELSE s
RECURSIVE StripRight(_)
StripRight(s) ==
    IF s # <<>> /\ s[Len(s)] = " " THEN StripRight(SubSeq(s, 1, Len(s) - 1)) ELSE s
Normalized(s) == StripLeft(StripRight(Lower(s)))

\* A coordinate rounded to 3 decimals, in 1/1000 degree.
Round3(x) == IF x < 0 THEN -((Abs(x) + 5) \div 10) ELSE (x + 5) \div 10

----------------------------------------------------------------------------
\* C1: a failed forecast fetch is never cached: when the weather call of a
\* request failed and the request was answered with forecast null, the next
\* request for the same (lat, lon) calls the weather provider again, at any
\* later time.
C1_FailedFetchNotCached ==
    [][ ( /\ Step
          /\ Failed(last, "weather")
          /\ Answered(last) /\ last.published[1].forecast = None
          /\ last'.fkey = last.fkey )
        => Called(last', "weather") ]_vars

\* C2: every message that on_message decodes ends with exactly one published
\* response envelope, whatever the caches (the seeded ones included) hold.
C2_ExactlyOneResponse ==
    (nreq > 0 /\ last.msg.parse = "ok") => Len(last.published) = 1

\* C3: after a place request resolved name n, a request for a name equal to n
\* up to case and surrounding whitespace makes no geocode call and returns
\* the identical location record.
C3_PlaceIdempotent ==
    [][ ( /\ Step
          /\ IsPlaceRequest(last) /\ Answered(last)
          /\ IsPlaceRequest(last')
          /\ Normalized(last'.msg.place[1]) = Normalized(last.msg.place[1]) )
        => /\ ~Called(last', "geocode")
           /\ Answered(last')
           /\ last'.published[1].location = last.published[1].location ]_vars

\* C4: two reverse-geocode requests whose coordinates round to the same
\* values at 3 decimals derive the same cache key: after the first succeeded
\* the second makes no reverse-geocode call, and the cache holds one entry
\* for the two.
C4_RoundedCoordinatesCollide ==
    [][ ( /\ Step
          /\ IsPointRequest(last) /\ Answered(last)
          /\ IsPointRequest(last')
          /\ Round3(last'.msg.lat[1]) = Round3(last.msg.lat[1])
          /\ Round3(last'.msg.lon[1]) = Round3(last.msg.lon[1]) )
        => LET k1 == RevKey(last.msg.lat[1], last.msg.lon[1])
               k2 == RevKey(last'.msg.lat[1], last'.msg.lon[1])
           IN  /\ k1 = k2
               /\ ~Called(last', "reverse")
               /\ Cardinality({ i \in 1..Len(rev_geocode_cache') :
                                  rev_geocode_cache'[i].key \in {k1, k2} }) = 1 ]_vars

----------------------------------------------------------------------------
\* The forecast key of a request, and what the history holds for it.
StoredBefore(k) == fcStored[k] # <<>> /\ fcStored[k][1].ok

\* C5 as stated: an entry stored at T is a hit for every request before
\* T + 10 minutes, and a miss, fetched once and stored again, after.
C5_HitUntilTtl ==
    [][ \A k \in FcKeys :
          (Step /\ last'.fkey = <<k>> /\ StoredBefore(k))
          => LET T == fcStored[k][1].at
             IN  /\ now < T + Ttl => ~Called(last', "weather")
                 /\ now > T + Ttl =>
                       /\ Cardinality(CallsTo(last', "weather")) = 1
                       /\ Contains(forecast_cache', k)
                       /\ fcStored'[k][1].at = now ]_vars

\* C5, amended: an entry stored at T that capacity has not evicted is a hit
\* for every request before T + 10 minutes and a miss after; the first
\* request after expiry, or after eviction, fetches once and stores the
\* entry again, with a new lifetime.
C5_HitUntilTtlOrEviction ==
    [][ \A k \in FcKeys :
          (Step /\ last'.fkey = <<k>> /\ StoredBefore(k))
          => LET T == fcStored[k][1].at
                 refetched ==
                     /\ Cardinality(CallsTo(last', "weather")) = 1
                     /\ Contains(forecast_cache', k)
                     /\ forecast_cache'[IndexOf(forecast_cache', k)].expires = now + Ttl
                     /\ fcStored'[k][1].at = now
             IN  /\ (Contains(forecast_cache, k) /\ now < T + Ttl)
                       => ~Called(last', "weather")
                 /\ now > T + Ttl => refetched
                 /\ ~Contains(forecast_cache, k) => refetched ]_vars

\* C5 happens: a request found its entry expired and fetched again, and the
\* same entry served a hit before.
C5_Witness ==
    /\ last.prevStored # <<>> /\ last.prevStored[1].ok
    /\ last.fkey # <<>>
    /\ fcStored[last.fkey[1]][1].at > last.prevStored[1].at + Ttl
    /\ Called(last, "weather")
    /\ Len(forecast_cache) = ForecastMaxsize

----------------------------------------------------------------------------
\* The reverse key least recently used among the cached ones.
LeastRecentlyUsed(c) ==
    CHOOSE k \in Keys(c) : \A j \in Keys(c) : revUse[k] <= revUse[j]

\* C6: when rev_geocode_cache is full and a request inserts a new key,
\* exactly the least recently used entry goes, an insertion and a hit both
\* counting as a use; a lookup of a key that is not cached calls the provider
\* and a lookup of a cached key does not.
C6_LruEviction ==
    [][ (Step /\ IsPointRequest(last'))
        => LET k == RevKey(last'.msg.lat[1], last'.msg.lon[1])
               old == rev_geocode_cache
               new == rev_geocode_cache'
           IN  /\ Contains(old, k) <=> ~Called(last', "reverse")
               /\ ( /\ Len(old) = RevMaxsize
                    /\ ~Contains(old, k)
                    /\ Answered(last') )
                  => /\ Keys(new) = (Keys(old) \ {LeastRecentlyUsed(old)}) \cup {k}
                     /\ Len(new) = RevMaxsize
                     /\ \A j \in Keys(old) \cap Keys(new) :
                            DictGet(new, j) = DictGet(old, j) ]_vars

\* C6 happens: the last request inserted a new key into the full cache; a
\* key used before is gone and a key used after it is still cached.
C6_Witness ==
    /\ IsPointRequest(last) /\ Answered(last) /\ Called(last, "reverse")
    /\ Len(rev_geocode_cache) = RevMaxsize
    /\ \E k \in RevKeys :
          /\ revUse[k] > 0
          /\ ~Contains(rev_geocode_cache, k)
          /\ \E j \in Keys(rev_geocode_cache) :
                revUse[j] > revUse[k] /\ revUse[j] < nreq

----------------------------------------------------------------------------
\* The record a success envelope carries: the cached one, as json.dumps
\* writes it.
Written(location) == [location EXCEPT !.attr_display_name = <<>>]

\* The key a request looks up, as the claims name it (not as the code
\* derives it): present in its cache or not.
LooksUpCached(l, gc, rc) ==
    \/ IsPlaceRequest(l) /\ Contains(gc, Lower(l.msg.place[1]))
    \/ IsPointRequest(l) /\ Contains(rc, RevKey(l.msg.lat[1], l.msg.lon[1]))

\* C7: a geocode or reverse-geocode call that raises or finds no match is
\* answered with one GEOCODE_ERROR envelope and leaves geocode_cache and
\* rev_geocode_cache as they were, the failed key not in them; and a request
\* for a key that is not cached calls the provider.
C7_GeocodeFailureNotCached ==
    [][ Step =>
        /\ (Failed(last', "geocode") \/ Failed(last', "reverse"))
            => /\ ~last'.raised
               /\ Len(last'.published) = 1
               /\ last'.published[1].topic = "error"
               /\ last'.published[1].error = "GEOCODE_ERROR"
               /\ geocode_cache' = geocode_cache
               /\ rev_geocode_cache' = rev_geocode_cache
               /\ ~LooksUpCached(last', geocode_cache', rev_geocode_cache')
        /\ ( /\ IsPlaceRequest(last') \/ IsPointRequest(last')
             /\ ~LooksUpCached(last', geocode_cache, rev_geocode_cache) )
            => (Called(last', "geocode") \/ Called(last', "reverse")) ]_vars

\* C7 happens: a reverse-geocode call failed while rev_geocode_cache held an
\* entry from an earlier request and geocode_cache its seeds.
C7_Witness ==
    /\ Failed(last, "reverse")
    /\ IsPointRequest(last)
    /\ rev_geocode_cache # <<>> /\ geocode_cache # <<>>

\* C8: when geocoding succeeded and the forecast fetch failed, the request is
\* answered with one success envelope carrying the resolved location and the
\* timezone, with forecast null; nothing is raised.
C8_ForecastFailureIsSoft ==
    (nreq > 0 /\ Failed(last, "weather"))
    => /\ ~last.raised
       /\ Len(last.published) = 1
       /\ LET e == last.published[1]
          IN  /\ e.topic = (IF last.path = "place" THEN "place_request" ELSE "point_request")
              /\ e.error = Absent
              /\ e.forecast = None
              /\ e.timezone = timezone_at(last.fkey[1][1], last.fkey[1][2])
              /\ e.location =
                    IF last.path = "place"
                    THEN << Written(DictGet(geocode_cache, Lower(last.msg.place[1]))) >>
                    ELSE << Written(DictGet(rev_geocode_cache,
                                RevKey(last.msg.lat[1], last.msg.lon[1]))) >>

\* C8 happens: a place request, geocoded by the provider, whose forecast
\* fetch failed.
C8_Witness ==
    /\ nreq > 0 /\ Failed(last, "weather")
    /\ last.path = "place" /\ Called(last, "geocode")

\* A payload that json.loads rejects, or an object with neither a place nor
\* both lat and lon.
Unrecognized(msg) ==
    \/ msg.parse # "ok"
    \/ msg.place = <<>> /\ ~(msg.lat # <<>> /\ msg.lon # <<>>)

\* C9: a malformed or unrecognized message is answered with an error
\* envelope whose error kind is BAD_REQUEST.
C9_BadRequestKind ==
    (nreq > 0 /\ Unrecognized(last.msg) /\ last.msg.parse # "utf8err")
    => /\ Len(last.published) = 1
       /\ last.published[1].topic = "error"
       /\ last.published[1].error = "BAD_REQUEST"

\* C10: handling a malformed or unrecognized message calls no collaborator
\* and leaves the three caches as they were.
C10_BadRequestFrame ==
    [][ (Step /\ Unrecognized(last'.msg))
        => /\ last'.calls = <<>>
           /\ geocode_cache' = geocode_cache
           /\ rev_geocode_cache' = rev_geocode_cache
           /\ forecast_cache' = forecast_cache ]_vars

\* C10 happens: an object with a lat and no lon arrived while the caches held
\* entries from an earlier request.
C10_Witness ==
    /\ nreq > 0 /\ Unrecognized(last.msg)
    /\ last.msg.parse = "ok" /\ last.msg.lat # <<>>
    /\ rev_geocode_cache # <<>> /\ forecast_cache # <<>>

----------------------------------------------------------------------------
\* The shape of the address breakdown that the reverse-geocode call of a
\* request returned, "" when it made none or the call failed.
ReverseShape(l) ==
    IF \E i \in CallsTo(l, "reverse") :
          l.calls[i].result \in {"full", "nosuburb", "nocity", "noaddress"}
    THEN l.calls[CHOOSE i \in CallsTo(l, "reverse") : TRUE].result
    ELSE ""

RequestRevKey(l) == RevKey(l.msg.lat[1], l.msg.lon[1])

\* C11: an address breakdown without a city does not make rev_geocode raise:
\* the request is answered with a success envelope, the record is cached, its
\* display name is the provider's own and the raw payload is unchanged.
C11_IncompleteAddressFallsBack ==
    (nreq > 0 /\ IsPointRequest(last) /\ ReverseShape(last) = "nocity")
    => /\ Answered(last)
       /\ Contains(rev_geocode_cache, RequestRevKey(last))
       /\ LET raw == ReverseRaw(last.msg.lat[1], last.msg.lon[1], "nocity")
              sent == last.published[1].location[1]
          IN  /\ sent.display_name = raw.display_name
              /\ sent.display_name # None
              /\ sent.id = raw.id /\ sent.address = raw.address

\* The comma-joined present fields of an address breakdown.
PresentFields(address) ==
    IF address.suburb # <<>>
    THEN address.suburb[1] \o ", " \o address.city[1] \o ", " \o address.state[1]
    ELSE address.city[1] \o ", " \o address.state[1]

\* C12: on a reverse-geocode miss whose address has city and state, the
\* display name of the record cached and sent to the client is the
\* comma-joined present fields: "suburb, city, state", or "city, state"
\* without a suburb.
C12_DisplayNameJoinsPresentFields ==
    (nreq > 0 /\ IsPointRequest(last) /\ ReverseShape(last) \in {"full", "nosuburb"})
    => /\ Answered(last)
       /\ Contains(rev_geocode_cache, RequestRevKey(last))
       /\ LET raw == ReverseRaw(last.msg.lat[1], last.msg.lon[1], ReverseShape(last))
              want == PresentFields(raw.address[1])
          IN  /\ last.published[1].location[1].display_name = want
              /\ DictGet(rev_geocode_cache, RequestRevKey(last)).display_name = want

\* Latitudes of the inputs that lie in the United Kingdom, and the two
\* forecast providers by the name of their calls: requests.get(weather_url)
\* is the worldwide one.
UKLats == { 24 }
InUK(location) == location.lat # <<>> /\ location.lat[1] \in UKLats
WorldwideProvider == "weather"
UKProvider == "ukweather"

\* C13: forecast routing follows the location's inUK flag: a request whose
\* resolved location is in the UK fetches its forecast from the UK provider
\* only, any other from the worldwide provider only, never from both.
C13_ForecastRoutedByInUK ==
    (nreq > 0 /\ Answered(last))
    => LET location == last.published[1].location[1]
       IN  /\ InUK(location) => ~Called(last, WorldwideProvider)
           /\ ~InUK(location) => ~Called(last, UKProvider)
           /\ ~(Called(last, WorldwideProvider) /\ Called(last, UKProvider))

\* The calls the running handler makes to the geocode, reverse-geocode and
\* forecast providers, should they answer `out`.
ProviderCalls(msg, out) ==
    LET r == Handle(msg, geocode_cache, rev_geocode_cache, forecast_cache, now, out)
    IN  { r.calls[i].svc : i \in 1..Len(r.calls) } \ {"timezone"}

\* on_message is running and is in, or about to make, a provider call.
InProviderCall ==
    /\ busy # <<>>
    /\ \E out \in Relevant(busy[1], QueueOutcomes) : ProviderCalls(busy[1], out) # {}

\* C14: a provider call that hangs blocks only its own request: while one
\* request is in a provider call, a request that has arrived meanwhile can be
\* taken up and handled.
C14_HungCallBlocksOnlyItsRequest ==
    (InProviderCall /\ inbox # <<>>) => ENABLED Begin

\* The cache keys that handling msg looks up and does not find.
MissedKeys(msg) ==
    LET d == Dispatch(msg)
    IN  IF d.path = "place"
        THEN IF Contains(geocode_cache, GeocodeKey(d.place))
             THEN {} ELSE { <<"geocode", GeocodeKey(d.place)>> }
        ELSE IF d.path = "point"
        THEN (IF Contains(rev_geocode_cache, RevKey(d.lat, d.lon))
              THEN {} ELSE { <<"reverse", RevKey(d.lat, d.lon)>> })
             \cup (IF TtlHit(forecast_cache, ForecastKey(d.lat, d.lon), now)
                   THEN {} ELSE { <<"forecast", ForecastKey(d.lat, d.lon)>> })
        ELSE {}

\* C15: the caches do no single-flight de-duplication: while a handler that
\* missed on a key is in its provider call, a second request that misses on
\* the same key can run its own lookup and call the provider too.
C15_ConcurrentMissesBothCall ==
    ( /\ busy # <<>> /\ inbox # <<>>
      /\ MissedKeys(busy[1]) \cap MissedKeys(Head(inbox)) # {} )
    => ENABLED Begin

\* C16: forecast expiry is measured from insertion, whatever the accesses:
\* a hit leaves the entry's expiry time where the insertion put it, and a
\* request later than the insertion time plus 10 minutes is a miss (it calls
\* the provider) however many hits the entry served.
C16_ExpiryIndependentOfAccess ==
    [][ \A k \in FcKeys :
          (Step /\ last'.fkey = <<k>> /\ fcStored[k] # <<>>)
          => LET T == fcStored[k][1].at
             IN  /\ now > T + Ttl => Called(last', "weather")
                 /\ (~Called(last', "weather") /\ ~last'.raised)
                       => /\ Contains(forecast_cache, k) /\ Contains(forecast_cache', k)
                          /\ forecast_cache'[IndexOf(forecast_cache', k)].expires = T + Ttl
                          /\ fcStored'[k][1].at = T ]_vars

\* C16 happens: the last request missed on an entry stored more than 10
\* minutes before, which had served a hit in between.
C16_Witness ==
    /\ last.fkey # <<>> /\ last.prevStored # <<>>
    /\ last.prevStored[1].hits >= 1
    /\ now > last.prevStored[1].at + Ttl
    /\ Called(last, "weather")
    /\ fcStored[last.fkey[1]][1].at = now

\* The entries of a cache under key k, and the forecast entries still live.
EntriesOf(c, k) == { i \in 1..Len(c) : c[i].key = k }
LiveEntries(c, t) == { i \in 1..Len(c) : TtlLive(c[i], t) }

\* C17: in every reachable state the reverse-geocode cache holds at most its
\* capacity of entries and the forecast cache at most its capacity of live
\* entries, each with at most one entry per key.
C17_CachesBounded ==
    /\ Len(rev_geocode_cache) <= RevMaxsize
    /\ \A k \in Keys(rev_geocode_cache) :
          Cardinality(EntriesOf(rev_geocode_cache, k)) = 1
    /\ Cardinality(LiveEntries(forecast_cache, now)) <= ForecastMaxsize
    /\ \A k \in Keys(forecast_cache) :
          Cardinality(EntriesOf(forecast_cache, k)) = 1

\* C17 happens: both caches were full, forecast entries all live, and the
\* last request brought a new key to each.
C17_Witness ==
    /\ Len(rev_geocode_cache) = RevMaxsize
    /\ Cardinality(LiveEntries(forecast_cache, now)) = ForecastMaxsize
    /\ nreq > RevMaxsize /\ nreq > ForecastMaxsize
    /\ Answered(last) /\ Called(last, "reverse") /\ Called(last, "weather")
    /\ \A k \in FcKeys : fcStored[k] # <<>> => fcStored[k][1].at + Ttl > now
    /\ Cardinality({ k \in FcKeys : fcStored[k] # <<>> }) > ForecastMaxsize
    /\ Cardinality({ k \in RevKeys : revUse[k] > 0 }) > RevMaxsize

Seeded == add_locations_to_cache(<<>>, CHOOSE seeds \in SeedLists : TRUE)

\* C19: seeded locations are authoritative and permanent: a place request
\* for a seeded name, in any letter case, makes no geocode call and is
\* answered with the seeded record, and every seeded entry stays in
\* geocode_cache as it was seeded.
C19_SeedsAuthoritative ==
    /\ \A k \in Keys(Seeded) :
          Contains(geocode_cache, k) /\ DictGet(geocode_cache, k) = DictGet(Seeded, k)
    /\ ( /\ nreq > 0 /\ IsPlaceRequest(last)
         /\ Lower(last.msg.place[1]) \in Keys(Seeded) )
       => /\ ~Called(last, "geocode")
          /\ Answered(last)
          /\ last.published[1].location =
                << Written(DictGet(Seeded, Lower(last.msg.place[1]))) >>

\* C20: a message takes exactly one resolution path.  With a place member
\* it is handled as a place request only, also when it carries lat and lon:
\* no reverse-geocode call, rev_geocode_cache unchanged.  With lat and lon
\* and no place it is handled as a point request only.  With only one of
\* lat and lon it is answered as an unknown request.
C20_OneResolutionPath ==
    [][ (Step /\ last'.msg.parse = "ok")
        => LET m == last'.msg
               topics == { last'.published[i].topic : i \in 1..Len(last'.published) }
           IN  /\ m.place # <<>>
                    => /\ ~Called(last', "reverse")
                       /\ rev_geocode_cache' = rev_geocode_cache
                       /\ topics \subseteq {"place_request", "error"}
                       /\ m.place[1] \in PlaceNames /\ ~Contains(geocode_cache, Lower(m.place[1]))
                            => Called(last', "geocode")
               /\ (m.place = <<>> /\ m.lat # <<>> /\ m.lon # <<>>)
                    => /\ ~Called(last', "geocode")
                       /\ geocode_cache' = geocode_cache
                       /\ topics \subseteq {"point_request", "error"}
                       /\ (IsPointRequest(last') /\ ~Contains(rev_geocode_cache,
                                RevKey(m.lat[1], m.lon[1])))
                            => Called(last', "reverse")
               /\ (m.place = <<>> /\ (m.lat = <<>>) # (m.lon = <<>>))
                    => /\ last'.published = << ErrorEnvelope(Absent, "Unknown request") >>
                       /\ last'.calls = <<>> ]_vars

\* C20 happens: a message with place, lat and lon was geocoded by the
\* provider and answered as a place request, while rev_geocode_cache held an
\* entry of an earlier point request and none for the message's coordinates.
C20_Witness ==
    /\ last.msg.place # <<>> /\ last.msg.lat # <<>> /\ last.msg.lon # <<>>
    /\ Called(last, "geocode") /\ Answered(last)
    /\ last.published[1].topic = "place_request"
    /\ rev_geocode_cache # <<>>
    /\ ~Contains(rev_geocode_cache, RevKey(last.msg.lat[1], last.msg.lon[1]))

====
